---- MODULE Spec2Model ----
(***************************************************************************)
(* Model of the MCP Tool Gateway Python client                             *)
(* (src/python/mcp_tool_gateway/__init__.py).                              *)
(*                                                                         *)
(* Text (response bodies, error messages, URLs) is modelled as a sequence  *)
(* of string tokens; a token stands for a run of characters.  Integers are *)
(* rendered with ToString when they are formatted into a message.  Delays  *)
(* are integers (time units); floating-point rounding is not modelled.     *)
(***************************************************************************)
EXTENDS Integers, Sequences, FiniteSets, TLC

(***************************************************************************)
(* Bounds of the model.                                                    *)
(***************************************************************************)
MaxRetriesBound == 2   \* max_retries ranges over -NegRetriesBound..MaxRetriesBound
NegRetriesBound == 2
MaxDelay == 2          \* retry_delay ranges over 1..MaxDelay
MaxBackoff == 2        \* retry_backoff ranges over 1..MaxBackoff

(***************************************************************************)
(* Text helpers.                                                           *)
(***************************************************************************)
Q == "\""

\* Python `sub in text` on strings, at token granularity.
Contains(text, sub) ==
    \E i \in 1..(Len(text) + 1) :
        /\ i + Len(sub) - 1 <= Len(text)
        /\ SubSeq(text, i, i + Len(sub) - 1) = sub

\* Index of the first occurrence of token tok in text, 0 when absent.
IndexOf(text, tok) ==
    IF \E i \in 1..Len(text) : text[i] = tok
    THEN CHOOSE i \in 1..Len(text) :
            /\ text[i] = tok
            /\ \A j \in 1..(i - 1) : text[j] # tok
    ELSE 0

(***************************************************************************)
(* JSON values as Python sees them after json.loads.  Every value is a     *)
(* record of the same shape: k is the kind, s the text of a scalar (the    *)
(* content of a str, the literal of a number or bool), items the elements  *)
(* of a list, fields the key -> value mapping of a dict (keys are texts);   *)
(* for a dict, items holds its keys (as str values) in insertion order.    *)
(***************************************************************************)
JNull == [k |-> "null", s |-> <<>>, items |-> <<>>, fields |-> <<>>]
JBool(lit) == [k |-> "bool", s |-> <<lit>>, items |-> <<>>, fields |-> <<>>]
JNum(lit) == [k |-> "num", s |-> <<lit>>, items |-> <<>>, fields |-> <<>>]
JStr(content) == [k |-> "str", s |-> content, items |-> <<>>, fields |-> <<>>]
JList(elems) == [k |-> "list", s |-> <<>>, items |-> elems, fields |-> <<>>]
JDict(keys, map) == [k |-> "dict", s |-> <<>>, items |-> keys, fields |-> map]
EmptyDict == JDict(<<>>, <<>>)

\* d[key] = v on a Python dict: a new key is appended to the order, a
\* repeated key keeps its position and takes the new value.
DictSet(d, key, v) ==
    JDict(IF key \in DOMAIN d.fields THEN d.items ELSE Append(d.items, JStr(key)),
          (key :> v) @@ d.fields)

NumTokens == {"0", "1", "42", "100"}

\* Result of a parse step: ok, the value parsed and the unread text.
ParseFail == [ok |-> FALSE, val |-> JNull, rest |-> <<>>]
ParseOk(v, r) == [ok |-> TRUE, val |-> v, rest |-> r]

\* A JSON string: quote, content tokens, quote.  text starts after the
\* opening quote.
ParseString(text) ==
    LET i == IndexOf(text, Q)
    IN  IF i = 0 THEN ParseFail
        ELSE ParseOk(JStr(SubSeq(text, 1, i - 1)), SubSeq(text, i + 1, Len(text)))

RECURSIVE ParseValue(_), ParseItems(_, _), ParseMembers(_, _)

\* json.loads' recursive descent over one value.
ParseValue(text) ==
    IF text = <<>> THEN ParseFail
    ELSE LET h == Head(text)
             t == Tail(text)
         IN  CASE h = "null" -> ParseOk(JNull, t)
               [] h \in {"true", "false"} -> ParseOk(JBool(h), t)
               [] h \in NumTokens -> ParseOk(JNum(h), t)
               [] h = Q -> ParseString(t)
               [] h = "[" ->
                    IF t # <<>> /\ Head(t) = "]"
                    THEN ParseOk(JList(<<>>), Tail(t))
                    ELSE ParseItems(t, <<>>)
               [] h = "{" ->
                    IF t # <<>> /\ Head(t) = "}"
                    THEN ParseOk(EmptyDict, Tail(t))
                    ELSE ParseMembers(t, EmptyDict)
               [] OTHER -> ParseFail

\* Elements of a list after "[" : value ("," value)* "]".
ParseItems(text, acc) ==
    LET r == ParseValue(text)
    IN  IF ~r.ok \/ r.rest = <<>> THEN ParseFail
        ELSE IF Head(r.rest) = "]"
             THEN ParseOk(JList(Append(acc, r.val)), Tail(r.rest))
        ELSE IF Head(r.rest) = ","
             THEN ParseItems(Tail(r.rest), Append(acc, r.val))
        ELSE ParseFail

\* Members of an object after "{" : string ":" value ("," ...)* "}".
\* A repeated key keeps the last value, as a Python dict does.
ParseMembers(text, acc) ==
    IF text = <<>> \/ Head(text) # Q THEN ParseFail
    ELSE LET key == ParseString(Tail(text))
         IN  IF ~key.ok \/ key.rest = <<>> \/ Head(key.rest) # ":" THEN ParseFail
             ELSE LET r == ParseValue(Tail(key.rest))
                      map == DictSet(acc, key.val.s, r.val)
                  IN  IF ~r.ok \/ r.rest = <<>> THEN ParseFail
                      ELSE IF Head(r.rest) = "}"
                           THEN ParseOk(map, Tail(r.rest))
                      ELSE IF Head(r.rest) = ","
                           THEN ParseMembers(Tail(r.rest), map)
                      ELSE ParseFail

\* json.loads(text): the whole text must be one value; otherwise
\* json.JSONDecodeError.
JsonLoads(text) ==
    LET r == ParseValue(text)
    IN  IF r.ok /\ r.rest = <<>> THEN [ok |-> TRUE, val |-> r.val]
        ELSE [ok |-> FALSE, val |-> JNull]

(***************************************************************************)
(* Python semantics of decoded values used by the client.                  *)
(***************************************************************************)
\* bool(v): None, False, 0, "", [] and {} are falsy.
Truthy(v) ==
    CASE v.k = "null" -> FALSE
      [] v.k = "bool" -> v.s = <<"true">>
      [] v.k = "num" -> v.s # <<"0">>
      [] v.k = "str" -> v.s # <<>>
      [] v.k = "list" -> v.items # <<>>
      [] v.k = "dict" -> DOMAIN v.fields # {}

\* dict.get(key): the value, or None when the key is absent.
DictGet(d, key) == IF key \in DOMAIN d.fields THEN d.fields[key] ELSE JNull

RECURSIVE PyRepr(_), ReprItems(_, _), ReprMembers(_, _)

\* repr(v) as Python prints a decoded JSON value.
PyRepr(v) ==
    CASE v.k = "null" -> <<"None">>
      [] v.k = "bool" -> IF v.s = <<"true">> THEN <<"True">> ELSE <<"False">>
      [] v.k = "num" -> v.s
      [] v.k = "str" -> <<"'">> \o v.s \o <<"'">>
      [] v.k = "list" -> <<"[">> \o ReprItems(v.items, 1) \o <<"]">>
      [] v.k = "dict" -> <<"{">> \o ReprMembers(v, 1) \o <<"}">>

ReprItems(elems, i) ==
    IF i > Len(elems) THEN <<>>
    ELSE (IF i > 1 THEN <<", ">> ELSE <<>>) \o PyRepr(elems[i]) \o ReprItems(elems, i + 1)

ReprMembers(d, i) ==
    IF i > Len(d.items) THEN <<>>
    ELSE (IF i > 1 THEN <<", ">> ELSE <<>>)
         \o PyRepr(d.items[i]) \o <<": ">> \o PyRepr(d.fields[d.items[i].s])
         \o ReprMembers(d, i + 1)

\* str(v), as an f-string or str(RuntimeError(v)) renders it: a str is its
\* own content, everything else its repr.
PyStr(v) == IF v.k = "str" THEN v.s ELSE PyRepr(v)

(***************************************************************************)
(* Exceptions.  type is the Python class, msg is str(e), cause is the      *)
(* class and message of __cause__ (NoCause when raised without `from`, or  *)
(* `from None`).                                                           *)
(***************************************************************************)
NoCause == [type |-> "None", msg |-> <<>>]
Exc(type, msg, cause) == [type |-> type, msg |-> msg, cause |-> cause]
NoExc == Exc("None", <<>>, NoCause)
CauseOf(e) == [type |-> e.type, msg |-> e.msg]

(***************************************************************************)
(* Serialisation used to build requests.                                   *)
(***************************************************************************)
RECURSIVE JsonDumps(_), DumpItems(_, _), DumpMembers(_, _)

\* json.dumps(v): the JSON text of a value ("," and ":" stand for the
\* separators ", " and ": ").
JsonDumps(v) ==
    CASE v.k = "null" -> <<"null">>
      [] v.k = "bool" -> v.s
      [] v.k = "num" -> v.s
      [] v.k = "str" -> <<Q>> \o v.s \o <<Q>>
      [] v.k = "list" -> <<"[">> \o DumpItems(v.items, 1) \o <<"]">>
      [] v.k = "dict" -> <<"{">> \o DumpMembers(v, 1) \o <<"}">>

DumpItems(elems, i) ==
    IF i > Len(elems) THEN <<>>
    ELSE (IF i > 1 THEN <<",">> ELSE <<>>) \o JsonDumps(elems[i]) \o DumpItems(elems, i + 1)

DumpMembers(d, i) ==
    IF i > Len(d.items) THEN <<>>
    ELSE (IF i > 1 THEN <<",">> ELSE <<>>)
         \o JsonDumps(d.items[i]) \o <<":">> \o JsonDumps(d.fields[d.items[i].s])
         \o DumpMembers(d, i + 1)

\* urllib.parse.quote_plus on one token: reserved characters are
\* percent-encoded, a space becomes "+", unreserved runs are kept.
QuoteToken(tok) ==
    CASE tok = " " -> "+"
      [] tok = ":" -> "%3A"
      [] tok = "&" -> "%26"
      [] tok = "=" -> "%3D"
      [] tok = "#" -> "%23"
      [] OTHER -> tok

QuotePlus(text) == [i \in 1..Len(text) |-> QuoteToken(text[i])]

(***************************************************************************)
(* Optional[str] arguments: <<>> is None, <<text>> is the string text.     *)
(***************************************************************************)
None == <<>>
Some(text) == <<text>>
\* `if arg:` -- None and the empty string are both falsy.
Given(arg) == arg # None /\ arg[1] # <<>>

(***************************************************************************)
(* Request descriptors built by the endpoint wrappers.                     *)
(***************************************************************************)
Request(url, data, method) ==
    [url |-> url, data |-> data, method |-> method,
     \* headers = {"Content-Type": "application/json"} if data else {}
     headers |-> IF data # <<>> THEN {"Content-Type: application/json"} ELSE {}]

\* url += f"?server={server}" when a server was given.
WithServer(url, server) ==
    IF Given(server) THEN url \o <<"?server=">> \o server[1] ELSE url

GetToolsRequest(base, provider, server) ==
    Request(WithServer(base \o <<"/tools/", provider>>, server), <<>>, "GET")

\* Variant of ExecutePayload: the server key is always present, null when
\* no server was given.
ExecutePayloadServerAlways(provider, callv, server) ==
    DictSet(DictSet(DictSet(EmptyDict, <<"provider">>, JStr(<<provider>>)),
                    <<"call">>, callv),
            <<"server">>, IF Given(server) THEN JStr(server[1]) ELSE JNull)

\* payload = {"provider": provider, "call": call}; payload["server"] = server
\* under `if server:`.
ExecutePayload(provider, callv, server) ==
    LET payload == DictSet(DictSet(EmptyDict, <<"provider">>, JStr(<<provider>>)),
                           <<"call">>, callv)
    IN  IF Given(server) THEN DictSet(payload, <<"server">>, JStr(server[1])) ELSE payload

ExecuteRequest(base, provider, callv, server) ==
    Request(base \o <<"/execute">>, JsonDumps(ExecutePayload(provider, callv, server)), "POST")

CallToolPayload(server, tool, arguments) ==
    DictSet(DictSet(DictSet(EmptyDict, <<"server">>, JStr(server)),
                    <<"tool">>, JStr(<<tool>>)),
            <<"arguments">>, arguments)

CallToolRequest(base, server, tool, arguments) ==
    Request(base \o <<"/call_tool">>, JsonDumps(CallToolPayload(server, tool, arguments)), "POST")

ToolsRequest(base, server) ==
    Request(WithServer(base \o <<"/tools">>, server), <<>>, "GET")

\* Variant of LogsQuery: the since timestamp is appended as it was given.
LogsQueryRawSince(server, since, limit) ==
    <<"server=">> \o QuotePlus(server) \o <<"&", "limit=">> \o QuotePlus(<<ToString(limit)>>)
    \o (IF Given(since) THEN <<"&", "since=">> \o since[1] ELSE <<>>)

\* urlencode({"server": server, "limit": limit[, "since": since]})
LogsQuery(server, since, limit) ==
    <<"server=">> \o QuotePlus(server) \o <<"&", "limit=">> \o QuotePlus(<<ToString(limit)>>)
    \o (IF Given(since) THEN <<"&", "since=">> \o QuotePlus(since[1]) ELSE <<>>)

LogsRequest(base, server, since, limit) ==
    Request(base \o <<"/logs?">> \o LogsQuery(server, since, limit), <<>>, "GET")

HealthRequest(base) == Request(base \o <<"/health">>, <<>>, "GET")

(***************************************************************************)
(* Invocations: a client operation with its arguments.                     *)
(***************************************************************************)
Invocation(op, provider, server, callv, tool, since, limit) ==
    [op |-> op, provider |-> provider, server |-> server, callv |-> callv,
     tool |-> tool, since |-> since, limit |-> limit]

NoInvocation == Invocation("none", "", None, JNull, "", None, 0)

GeminiCall == DictSet(DictSet(EmptyDict, <<"name">>, JStr(<<"add">>)), <<"args">>, EmptyDict)
ReservedServer == <<"my", " ", "srv", "&", "x", "=", "1", "#", "f">>
SinceStamp == <<"2024-01-01T00", ":", "00", ":", "00Z">>

Invocations ==
    { Invocation("get_tools", "gemini", None, JNull, "", None, 0),
      Invocation("get_tools", "openai", Some(ReservedServer), JNull, "", None, 0),
      Invocation("execute", "gemini", None, GeminiCall, "", None, 0),
      Invocation("execute", "openai", Some(<<"default">>), GeminiCall, "", None, 0),
      Invocation("execute", "gemini", Some(<<>>), JList(<<JNum("1")>>), "", None, 0),
      Invocation("call_tool", "", Some(<<"default">>), EmptyDict, "add", None, 0),
      Invocation("tools", "", Some(<<>>), JNull, "", None, 0),
      Invocation("logs", "", Some(<<"default">>), JNull, "", None, 100),
      Invocation("logs", "", Some(<<"default">>), JNull, "", Some(SinceStamp), 10),
      Invocation("logs", "", Some(ReservedServer), JNull, "", Some(<<>>), 5),
      Invocation("health", "", None, JNull, "", None, 0) }

\* The request descriptor each wrapper hands to _make_request.
BuildRequest(base, inv) ==
    CASE inv.op = "get_tools" -> GetToolsRequest(base, inv.provider, inv.server)
      [] inv.op = "execute" -> ExecuteRequest(base, inv.provider, inv.callv, inv.server)
      [] inv.op = "call_tool" -> CallToolRequest(base, inv.server[1], inv.tool, inv.callv)
      [] inv.op = "tools" -> ToolsRequest(base, inv.server)
      [] inv.op = "logs" -> LogsRequest(base, inv.server[1], inv.since, inv.limit)
      [] inv.op = "health" -> HealthRequest(base)

(***************************************************************************)
(* What the transport can hand back for one urlopen call.                  *)
(*   cls = "ok"    urlopen returned a response (2xx); read tells whether   *)
(*                 resp.read().decode('utf-8') yields body, fails with an  *)
(*                 OSError whose str() is reason ("ioerror") or with       *)
(*                 UnicodeDecodeError ("badutf8");                         *)
(*   cls = "http"  urlopen raised HTTPError(code, reason) carrying body;   *)
(*   cls = "net"   urlopen raised exc (URLError, OSError or TimeoutError)  *)
(*                 whose str() is reason;                                  *)
(*   cls = "proto" urlopen raised exc, an exception of none of the classes *)
(*                 the client catches (http.client.HTTPException).         *)
(***************************************************************************)
Response(cls, code, reason, read, body, exc) ==
    [cls |-> cls, code |-> code, reason |-> reason, read |-> read,
     body |-> body, exc |-> exc]

NoResponse == Response("none", 0, <<>>, "ok", <<>>, "")

Key(name) == <<Q, name, Q>>
Obj1(name, v) == <<"{">> \o Key(name) \o <<":">> \o v \o <<"}">>
Obj2(n1, v1, n2, v2) ==
    <<"{">> \o Key(n1) \o <<":">> \o v1 \o <<",">> \o Key(n2) \o <<":">> \o v2 \o <<"}">>

OkBodies ==
    { Obj1("ok", <<"true">>),
      Obj1("result", <<"100">>),
      Obj1("result", Obj1("status", Key("success"))),
      Obj1("result", <<"null">>),
      Obj1("result", <<"[", Q, "a", Q, ",", "1", "]">>),
      Obj1("result", Key("done")),
      Obj1("error", Key("Tool execution failed")),
      Obj1("error", <<"null">>),
      Obj2("error", Key("boom"), "result", <<"1">>),
      <<"{", "}">>,
      <<"[", Q, "error", Q, "]">>,
      <<"[", "1", "]">>,
      <<Q, "an ", "error", " text", Q>>,
      <<"null">>,
      <<"<html>", "not json">>,
      Obj1("result", <<>>),
      <<>> }

ErrorBodies ==
    { Obj1("error", Key("Bad request")),
      Obj1("error", <<Q, Q>>),
      Obj1("error", <<"null">>),
      Obj1("detail", Key("nope")),
      <<"[", Q, "error", Q, "]">>,
      <<"Internal Server Error">>,
      <<>> }

ReasonPhrase(code) ==
    CASE code = 304 -> <<"Not Modified">>
      [] code = 400 -> <<"Bad Request">>
      [] code = 404 -> <<"Not Found">>
      [] code = 499 -> <<"Client Closed Request">>
      [] code = 500 -> <<"Internal Server Error">>
      [] code = 503 -> <<"Service Unavailable">>
      [] OTHER -> <<"Unknown">>

HttpError(code, read, body) == Response("http", code, ReasonPhrase(code), read, body, "HTTPError")

Responses ==
    { Response("ok", 200, <<"OK">>, "ok", b, "") : b \in OkBodies }
    \cup { Response("ok", 200, <<"Connection broken">>, "ioerror", <<>>, "OSError"),
           Response("ok", 200, <<"OK">>, "badutf8", <<>>, "") }
    \cup { HttpError(400, "ok", b) : b \in ErrorBodies }
    \cup { HttpError(400, "ioerror", Obj1("error", Key("Bad request"))),
           HttpError(404, "ok", Obj1("error", Key("Invalid tool name"))),
           HttpError(499, "ok", Obj1("error", Key("Bad request"))) }
    \cup { HttpError(500, "ok", b) :
              b \in {Obj1("error", Key("Bad request")), <<"Internal Server Error">>, <<>>} }
    \cup { HttpError(503, "ok", Obj1("error", Key("overloaded"))),
           HttpError(304, "ok", <<>>) }
    \cup { Response("net", 0, <<"<urlopen error ", "Network unreachable", ">">>, "ok", <<>>, "URLError"),
           Response("net", 0, <<"timed out">>, "ok", <<>>, "TimeoutError"),
           Response("net", 0, <<"Connection reset by peer">>, "ok", <<>>, "OSError"),
           Response("proto", 0, <<"bad status line">>, "ok", <<>>, "HTTPException") }

(***************************************************************************)
(* One pass through the body of the retry loop of _make_request.  The      *)
(* outcome of an attempt is tagged: "return" (with val), "raise" (with     *)
(* err) or "retry" (err is the failure recorded in last_error).            *)
(***************************************************************************)
Return(v) == [tag |-> "return", val |-> v, err |-> NoExc]
Raise(e) == [tag |-> "raise", val |-> JNull, err |-> e]
Retry(e) == [tag |-> "retry", val |-> JNull, err |-> e]

\* f"Gateway HTTP {e.code}: {msg}"
GatewayHttpMessage(code, msg) == <<"Gateway HTTP ", ToString(code), ": ">> \o msg

\* f"Network error: {e}"
NetworkErrorMessage(text) == <<"Network error: ">> \o text

\* f"Request failed after {self.max_retries + 1} attempts"
ExhaustedMessage(maxRetries) ==
    <<"Request failed after ", ToString(maxRetries + 1), " attempts">>

\* body = e.read().decode('utf-8'), "" when that raises.
ErrorBodyText(resp) == IF resp.read = "ok" THEN resp.body ELSE <<>>

\* Variant of ErrorDetail: the body is never decoded, the raw text is used.
ErrorDetailRawBody(resp) ==
    IF ErrorBodyText(resp) # <<>> THEN ErrorBodyText(resp) ELSE resp.reason

\* The message extracted from an HTTPError: detail.get("error") or body for
\* a JSON body (a JSON value without .get falls back to body), the body for
\* a non-JSON body, e.reason for an empty body.
ErrorDetail(resp) ==
    LET body == ErrorBodyText(resp)
        detail == JsonLoads(body)
    IN  IF body # <<>>
        THEN IF detail.ok /\ detail.val.k = "dict"
                   /\ Truthy(DictGet(detail.val, <<"error">>))
             THEN PyStr(DictGet(detail.val, <<"error">>))
             ELSE body
        ELSE resp.reason

\* Variant of IsClientError: the lower limit is excluded.
IsClientErrorAbove400(code) == 400 < code /\ code < 500

\* if 400 <= e.code < 500
IsClientError(code) == 400 <= code /\ code < 500

\* Variant of OnResponse: a body that cannot be decoded is handled like a
\* network error and retried.
OnResponseRetryUndecodable(resp) ==
    IF resp.read = "ok" /\ JsonLoads(resp.body).ok
    THEN Return(JsonLoads(resp.body).val)
    ELSE Retry(Exc("RuntimeError", NetworkErrorMessage(resp.reason), NoCause))

\* urlopen returned: return json.loads(resp.read().decode('utf-8')).
\* JSONDecodeError and UnicodeDecodeError are ValueErrors, caught by no
\* except clause; an OSError while reading is caught as a network error.
OnResponse(resp) ==
    CASE resp.read = "ioerror" ->
            Retry(Exc("RuntimeError", NetworkErrorMessage(resp.reason), NoCause))
      [] resp.read = "badutf8" ->
            Raise(Exc("UnicodeDecodeError", <<"invalid start byte">>, NoCause))
      [] OTHER ->
            IF JsonLoads(resp.body).ok
            THEN Return(JsonLoads(resp.body).val)
            ELSE Raise(Exc("JSONDecodeError", <<"Expecting value">>, NoCause))

\* Variant of OnHTTPError: every HTTP error is recorded and retried, a
\* status in [400, 500) included.
OnHTTPErrorRetryAll(resp) ==
    Retry(Exc("RuntimeError", GatewayHttpMessage(resp.code, ErrorDetail(resp)), NoCause))

\* except urllib.error.HTTPError as e
OnHTTPError(resp) ==
    LET e == Exc("RuntimeError", GatewayHttpMessage(resp.code, ErrorDetail(resp)), NoCause)
    IN  IF IsClientError(resp.code)
        THEN Raise(Exc(e.type, e.msg, [type |-> "HTTPError", msg |-> resp.reason]))
        ELSE Retry(e)

\* except (urllib.error.URLError, OSError, TimeoutError) as e
OnNetworkError(resp) ==
    Retry(Exc("RuntimeError", NetworkErrorMessage(resp.reason), NoCause))

\* Variant of UrlOpen: the timeout is the one of the field's default, not
\* the one the client was constructed with.
UrlOpenFixedTimeout(r, t) ==
    [url |-> r.url, data |-> r.data, headers |-> r.headers, method |-> r.method,
     timeout |-> 60]

\* req = urllib.request.Request(url, data=data, headers=headers,
\* method=method); urllib.request.urlopen(req, timeout=self.timeout):
\* what one attempt hands to the transport.
UrlOpen(r, t) ==
    [url |-> r.url, data |-> r.data, headers |-> r.headers, method |-> r.method,
     timeout |-> t]

\* The try statement of the loop body.
TryRequest(resp) ==
    CASE resp.cls = "ok" -> OnResponse(resp)
      [] resp.cls = "http" -> OnHTTPError(resp)
      [] resp.cls = "net" -> OnNetworkError(resp)
      [] OTHER -> Raise(Exc(resp.exc, resp.reason, NoCause))

\* Variant of InRange: the range holds one index more.
InRangeOneMore(attempt, maxRetries) == 0 <= attempt /\ attempt <= maxRetries + 1

\* for attempt in range(self.max_retries + 1)
InRange(attempt, maxRetries) == 0 <= attempt /\ attempt < maxRetries + 1

\* Variant of ShouldSleep: the sleep before the last retry is skipped.
ShouldSleepButLast(attempt, maxRetries) == attempt < maxRetries - 1

\* if attempt < self.max_retries
ShouldSleep(attempt, maxRetries) == attempt < maxRetries

\* Variant of NextDelay: the backoff is added, not multiplied.
NextDelayAdditive(delay, backoff) == delay + backoff

\* delay *= self.retry_backoff
NextDelay(delay, backoff) == delay * backoff

\* raise RuntimeError(f"Request failed after ...") from last_error
Exhausted(maxRetries, lastError) ==
    Exc("RuntimeError", ExhaustedMessage(maxRetries),
        IF lastError = NoExc THEN NoCause ELSE CauseOf(lastError))

(***************************************************************************)
(* What a wrapper does with the value _make_request returned.              *)
(***************************************************************************)
\* Variant of HasErrorField: the key looked up is "errors".
HasErrorFieldWrongKey(v) == v.k = "dict" /\ <<"errors">> \in DOMAIN v.fields

\* 'error' in response: key lookup on a dict, membership on a list,
\* substring on a str; TypeError on anything else.
HasErrorField(v) ==
    CASE v.k = "dict" -> <<"error">> \in DOMAIN v.fields
      [] v.k = "list" -> \E i \in 1..Len(v.items) : v.items[i] = JStr(<<"error">>)
      [] v.k = "str" -> Contains(v.s, <<"error">>)
      [] OTHER -> FALSE

\* Variant of ExtractResult: the error raised carries the whole response.
ExtractResultRaiseResponse(v) ==
    IF v.k = "dict" /\ <<"error">> \in DOMAIN v.fields
    THEN Raise(Exc("RuntimeError", PyStr(v), NoCause))
    ELSE Return(IF v.k = "dict" THEN DictGet(v, <<"result">>) ELSE JNull)

\* Variant of ExtractResult: the response is returned without unwrapping
\* its result field.
ExtractResultNoUnwrap(v) ==
    IF v.k = "dict" /\ <<"error">> \in DOMAIN v.fields
    THEN Raise(Exc("RuntimeError", PyStr(v.fields[<<"error">>]), NoCause))
    ELSE Return(v)

\* Variant of ExtractResult: a result field is returned when there is one,
\* the error field is looked at only without it.
ExtractResultPrefersResult(v) ==
    IF v.k # "dict"
    THEN Raise(Exc("TypeError", <<"argument is not iterable">>, NoCause))
    ELSE IF <<"result">> \in DOMAIN v.fields
         THEN Return(v.fields[<<"result">>])
         ELSE IF <<"error">> \in DOMAIN v.fields
              THEN Raise(Exc("RuntimeError", PyStr(v.fields[<<"error">>]), NoCause))
              ELSE Return(JNull)

\* execute and call_tool: raise RuntimeError(response['error']) when the
\* response has an error, else return response.get('result').
ExtractResult(v) ==
    IF v.k \in {"null", "bool", "num"}
    THEN Raise(Exc("TypeError", <<"argument is not iterable">>, NoCause))
    ELSE IF HasErrorField(v)
         THEN IF v.k = "dict"
              THEN Raise(Exc("RuntimeError", PyStr(v.fields[<<"error">>]), NoCause))
              ELSE Raise(Exc("TypeError", <<"indices must be integers">>, NoCause))
         ELSE IF v.k = "dict"
              THEN Return(DictGet(v, <<"result">>))
              ELSE Raise(Exc("AttributeError", <<"object has no attribute 'get'">>, NoCause))

\* Variant of Interpret: every operation looks for an error and unwraps the
\* result, as execute and call_tool do.
InterpretAlwaysExtract(op, v) == ExtractResult(v)

\* get_tools, tools, logs and health return what _make_request returned.
Interpret(op, v) ==
    IF op \in {"execute", "call_tool"} THEN ExtractResult(v) ELSE Return(v)

(***************************************************************************)
(* State.                                                                  *)
(***************************************************************************)
\* The threads that may be inside an operation of the one client; each has
\* its own frame of _make_request.  SoloCallers is the single thread of a
\* caller that issues its calls one after the other.
Callers == {"c1", "c2"}
SoloCallers == {"c1"}

VARIABLES
    base_url, timeout, max_retries, retry_delay, retry_backoff,  \* GatewayClient fields
    pc,          \* per caller: "idle", "attempt", "sleep" or "done"
    inv,         \* the operation the caller is in, with its arguments
    req,         \* url, data, headers and method of _make_request
    attempt,     \* loop variable of the retry loop
    delay,       \* local delay
    last_error,  \* local last_error
    made,        \* what _make_request returned or raised
    outcome,     \* how the operation ended: tag "return" or "raise"
    attempts,    \* history: number of urlopen calls of this call
    sleeps,      \* history: arguments of the time.sleep calls of this call
    log,         \* history: class of the response of every attempt
    lastResp,    \* history: what the latest urlopen call produced
    sent,        \* history: the arguments of every urlopen call of this call
    earlier      \* history: how the caller's previous call on this client
                 \* ended; kept where calls made one after the other are
                 \* followed, "untracked" elsewhere

config == <<base_url, timeout, max_retries, retry_delay, retry_backoff>>
locals == <<inv, req, attempt, delay, last_error, made, outcome>>
history == <<attempts, sleeps, log, lastResp, sent, earlier>>
vars == <<config, pc, locals, history>>

BaseUrl == <<"http://localhost:8787">>
Timeouts == {30, 60}

Pending == [tag |-> "none", val |-> JNull, err |-> NoExc]
NoRequest == Request(<<>>, <<>>, "")

\* How the transport answered, as the specification classifies it.
Class(resp) ==
    CASE resp.cls = "ok" /\ resp.read = "ioerror" -> "net"
      [] resp.cls = "ok" -> "2xx"
      [] resp.cls = "http" /\ resp.code >= 500 -> "5xx"
      [] resp.cls = "http" /\ resp.code >= 400 -> "4xx"
      [] resp.cls = "http" -> "3xx"
      [] OTHER -> resp.cls

\* A client as the dataclass constructor leaves it; no field is validated.
Init ==
    /\ base_url = BaseUrl
    /\ timeout \in Timeouts
    /\ max_retries \in (0 - NegRetriesBound)..MaxRetriesBound
    /\ retry_delay \in 1..MaxDelay
    /\ retry_backoff \in 1..MaxBackoff
    /\ earlier = [c \in Callers |-> "untracked"]
    /\ pc = [c \in Callers |-> "idle"]
    /\ inv = [c \in Callers |-> NoInvocation]
    /\ req = [c \in Callers |-> NoRequest]
    /\ attempt = [c \in Callers |-> 0]
    /\ delay = [c \in Callers |-> 0]
    /\ last_error = [c \in Callers |-> NoExc]
    /\ made = [c \in Callers |-> Pending]
    /\ outcome = [c \in Callers |-> Pending]
    /\ attempts = [c \in Callers |-> 0]
    /\ sleeps = [c \in Callers |-> <<>>]
    /\ log = [c \in Callers |-> <<>>]
    /\ lastResp = [c \in Callers |-> NoResponse]
    /\ sent = [c \in Callers |-> <<>>]

\* The operation ends: the wrapper interprets a returned value, an
\* exception propagates to the caller.
Finished(c, res, i) ==
    /\ pc' = [pc EXCEPT ![c] = "done"]
    /\ made' = [made EXCEPT ![c] = res]
    /\ outcome' = [outcome EXCEPT ![c] =
                      IF res.tag = "return" THEN Interpret(i.op, res.val) ELSE res]

\* Variant of Call: the backoff reached by a call that retried is kept on
\* the client, and the caller's next call starts from a raised delay.
CallResumesBackoff(c, i) ==
    /\ pc[c] = "idle"
    /\ inv' = [inv EXCEPT ![c] = i]
    /\ req' = [req EXCEPT ![c] = BuildRequest(base_url, i)]
    /\ delay' = [delay EXCEPT ![c] =
                    IF earlier[c] \in {"retried", "exhausted"}
                    THEN NextDelay(retry_delay, retry_backoff)
                    ELSE retry_delay]
    /\ last_error' = [last_error EXCEPT ![c] = NoExc]
    /\ attempt' = [attempt EXCEPT ![c] = 0]
    /\ IF InRange(0, max_retries)
       THEN /\ pc' = [pc EXCEPT ![c] = "attempt"]
            /\ UNCHANGED <<made, outcome>>
       ELSE Finished(c, Raise(Exhausted(max_retries, NoExc)), i)
    /\ UNCHANGED <<config, history>>

\* A caller invokes an operation: the wrapper builds the request and
\* _make_request initialises its locals and enters the loop; with an empty
\* range the loop body never runs and the final raise is reached at once.
Call(c, i) ==
    /\ pc[c] = "idle"
    /\ inv' = [inv EXCEPT ![c] = i]
    /\ req' = [req EXCEPT ![c] = BuildRequest(base_url, i)]
    /\ delay' = [delay EXCEPT ![c] = retry_delay]
    /\ last_error' = [last_error EXCEPT ![c] = NoExc]
    /\ attempt' = [attempt EXCEPT ![c] = 0]
    /\ IF InRange(0, max_retries)
       THEN /\ pc' = [pc EXCEPT ![c] = "attempt"]
            /\ UNCHANGED <<made, outcome>>
       ELSE Finished(c, Raise(Exhausted(max_retries, NoExc)), i)
    /\ UNCHANGED <<config, history>>

\* One iteration of the loop body up to the sleep: urlopen produces resp,
\* the try statement handles it, and after a retryable failure the loop
\* either sleeps, goes on to the next iteration, or ends in the final raise.
Attempt(c, resp) ==
    /\ pc[c] = "attempt"
    /\ attempts' = [attempts EXCEPT ![c] = @ + 1]
    /\ log' = [log EXCEPT ![c] = Append(@, Class(resp))]
    /\ lastResp' = [lastResp EXCEPT ![c] = resp]
    /\ sent' = [sent EXCEPT ![c] = Append(@, UrlOpen(req[c], timeout))]
    /\ LET res == TryRequest(resp)
       IN  IF res.tag = "retry"
           THEN /\ last_error' = [last_error EXCEPT ![c] = res.err]
                /\ IF ShouldSleep(attempt[c], max_retries)
                   THEN /\ pc' = [pc EXCEPT ![c] = "sleep"]
                        /\ UNCHANGED <<attempt, made, outcome>>
                   ELSE IF InRange(attempt[c] + 1, max_retries)
                        THEN /\ attempt' = [attempt EXCEPT ![c] = @ + 1]
                             /\ UNCHANGED <<pc, made, outcome>>
                        ELSE /\ Finished(c, Raise(Exhausted(max_retries, res.err)), inv[c])
                             /\ UNCHANGED attempt
           ELSE /\ Finished(c, res, inv[c])
                /\ UNCHANGED <<attempt, last_error>>
    /\ UNCHANGED <<config, inv, req, delay, sleeps, earlier>>

\* Variant of Sleep: a sleep longer than the initial delay does not return.
SleepNeverWakes(c) ==
    /\ pc[c] = "sleep"
    /\ delay[c] <= retry_delay
    /\ sleeps' = [sleeps EXCEPT ![c] = Append(@, delay[c])]
    /\ delay' = [delay EXCEPT ![c] = NextDelay(@, retry_backoff)]
    /\ IF InRange(attempt[c] + 1, max_retries)
       THEN /\ attempt' = [attempt EXCEPT ![c] = @ + 1]
            /\ pc' = [pc EXCEPT ![c] = "attempt"]
            /\ UNCHANGED <<made, outcome>>
       ELSE /\ Finished(c, Raise(Exhausted(max_retries, last_error[c])), inv[c])
            /\ UNCHANGED attempt
    /\ UNCHANGED <<config, inv, req, last_error, attempts, log, lastResp, sent, earlier>>

\* Variant of Sleep: the body of the request is gone after the first
\* attempt, so a retry is sent without it.
SleepDropsBody(c) ==
    /\ pc[c] = "sleep"
    /\ sleeps' = [sleeps EXCEPT ![c] = Append(@, delay[c])]
    /\ delay' = [delay EXCEPT ![c] = NextDelay(@, retry_backoff)]
    /\ req' = [req EXCEPT ![c] = Request(@.url, <<>>, @.method)]
    /\ IF InRange(attempt[c] + 1, max_retries)
       THEN /\ attempt' = [attempt EXCEPT ![c] = @ + 1]
            /\ pc' = [pc EXCEPT ![c] = "attempt"]
            /\ UNCHANGED <<made, outcome>>
       ELSE /\ Finished(c, Raise(Exhausted(max_retries, last_error[c])), inv[c])
            /\ UNCHANGED attempt
    /\ UNCHANGED <<config, inv, last_error, attempts, log, lastResp, sent, earlier>>

\* Variant of Sleep: the delay is one value shared by every call in
\* progress, not a local of the call.
SleepSharedDelay(c) ==
    /\ pc[c] = "sleep"
    /\ sleeps' = [sleeps EXCEPT ![c] = Append(@, delay[c])]
    /\ delay' = [d \in Callers |-> NextDelay(delay[c], retry_backoff)]
    /\ IF InRange(attempt[c] + 1, max_retries)
       THEN /\ attempt' = [attempt EXCEPT ![c] = @ + 1]
            /\ pc' = [pc EXCEPT ![c] = "attempt"]
            /\ UNCHANGED <<made, outcome>>
       ELSE /\ Finished(c, Raise(Exhausted(max_retries, last_error[c])), inv[c])
            /\ UNCHANGED attempt
    /\ UNCHANGED <<config, inv, req, last_error, attempts, log, lastResp, sent, earlier>>

\* Variant of Sleep: the backoff is applied to the field self.retry_delay
\* as well as to the local delay.
SleepOnField(c) ==
    /\ pc[c] = "sleep"
    /\ sleeps' = [sleeps EXCEPT ![c] = Append(@, delay[c])]
    /\ delay' = [delay EXCEPT ![c] = NextDelay(@, retry_backoff)]
    /\ retry_delay' = NextDelay(retry_delay, retry_backoff)
    /\ IF InRange(attempt[c] + 1, max_retries)
       THEN /\ attempt' = [attempt EXCEPT ![c] = @ + 1]
            /\ pc' = [pc EXCEPT ![c] = "attempt"]
            /\ UNCHANGED <<made, outcome>>
       ELSE /\ Finished(c, Raise(Exhausted(max_retries, last_error[c])), inv[c])
            /\ UNCHANGED attempt
    /\ UNCHANGED <<base_url, timeout, max_retries, retry_backoff,
                   inv, req, last_error, attempts, log, lastResp, sent, earlier>>

\* time.sleep(delay) returns; the delay is multiplied and the loop goes on
\* to its next iteration, or ends in the final raise.
Sleep(c) ==
    /\ pc[c] = "sleep"
    /\ sleeps' = [sleeps EXCEPT ![c] = Append(@, delay[c])]
    /\ delay' = [delay EXCEPT ![c] = NextDelay(@, retry_backoff)]
    /\ IF InRange(attempt[c] + 1, max_retries)
       THEN /\ attempt' = [attempt EXCEPT ![c] = @ + 1]
            /\ pc' = [pc EXCEPT ![c] = "attempt"]
            /\ UNCHANGED <<made, outcome>>
       ELSE /\ Finished(c, Raise(Exhausted(max_retries, last_error[c])), inv[c])
            /\ UNCHANGED attempt
    /\ UNCHANGED <<config, inv, req, last_error, attempts, log, lastResp, sent, earlier>>

\* How the call of caller c went: it used up its attempts, it retried at
\* least once, or its first attempt decided.
HowEnded(c) ==
    CASE made[c].tag = "raise" /\ made[c].err.msg = ExhaustedMessage(max_retries) -> "exhausted"
      [] OTHER -> IF sleeps[c] # <<>> THEN "retried" ELSE "clean"

\* The caller has its result; the locals of the call are gone.
Finish(c) ==
    /\ pc[c] = "done"
    /\ pc' = [pc EXCEPT ![c] = "idle"]
    /\ inv' = [inv EXCEPT ![c] = NoInvocation]
    /\ req' = [req EXCEPT ![c] = NoRequest]
    /\ attempt' = [attempt EXCEPT ![c] = 0]
    /\ delay' = [delay EXCEPT ![c] = 0]
    /\ last_error' = [last_error EXCEPT ![c] = NoExc]
    /\ made' = [made EXCEPT ![c] = Pending]
    /\ outcome' = [outcome EXCEPT ![c] = Pending]
    /\ attempts' = [attempts EXCEPT ![c] = 0]
    /\ sleeps' = [sleeps EXCEPT ![c] = <<>>]
    /\ log' = [log EXCEPT ![c] = <<>>]
    /\ lastResp' = [lastResp EXCEPT ![c] = NoResponse]
    /\ sent' = [sent EXCEPT ![c] = <<>>]
    /\ earlier' = [earlier EXCEPT ![c] = IF @ = "untracked" THEN @ ELSE HowEnded(c)]
    /\ UNCHANGED config

Next ==
    \/ \E c \in SoloCallers, i \in Invocations : Call(c, i)
    \/ \E c \in SoloCallers, resp \in Responses : Attempt(c, resp)
    \/ \E c \in SoloCallers : Sleep(c)
    \/ \E c \in SoloCallers : Finish(c)

Spec == Init /\ [][Next]_vars

(***************************************************************************)
(* A client constructed with only a base URL: GatewayClient(base_url).     *)
(* The other fields take the defaults of the dataclass.                    *)
(***************************************************************************)
DefaultTimeout == 60
DefaultMaxRetries == 3
DefaultRetryDelay == 1
DefaultRetryBackoff == 2

\* No call has been made yet.
NoCallYet ==
    /\ pc = [c \in Callers |-> "idle"]
    /\ inv = [c \in Callers |-> NoInvocation]
    /\ req = [c \in Callers |-> NoRequest]
    /\ attempt = [c \in Callers |-> 0]
    /\ delay = [c \in Callers |-> 0]
    /\ last_error = [c \in Callers |-> NoExc]
    /\ made = [c \in Callers |-> Pending]
    /\ outcome = [c \in Callers |-> Pending]
    /\ attempts = [c \in Callers |-> 0]
    /\ sleeps = [c \in Callers |-> <<>>]
    /\ log = [c \in Callers |-> <<>>]
    /\ lastResp = [c \in Callers |-> NoResponse]
    /\ sent = [c \in Callers |-> <<>>]

\* Variant of InitDefault: the default of max_retries is one less.
InitDefaultFewerRetries ==
    /\ base_url = BaseUrl
    /\ timeout = DefaultTimeout
    /\ max_retries = DefaultMaxRetries - 1
    /\ retry_delay = DefaultRetryDelay
    /\ retry_backoff = DefaultRetryBackoff
    /\ earlier = [c \in Callers |-> "untracked"]
    /\ NoCallYet

InitDefault ==
    /\ base_url = BaseUrl
    /\ timeout = DefaultTimeout
    /\ max_retries = DefaultMaxRetries
    /\ retry_delay = DefaultRetryDelay
    /\ retry_backoff = DefaultRetryBackoff
    /\ earlier = [c \in Callers |-> "untracked"]
    /\ NoCallYet

SpecDefault == InitDefault /\ [][Next]_vars

(***************************************************************************)
(* Two threads calling the same client concurrently.  A thread runs        *)
(* _make_request on its own stack; urlopen and time.sleep are the points   *)
(* where the threads interleave.                                           *)
(***************************************************************************)
ConcInvocations ==
    { Invocation("health", "", None, JNull, "", None, 0),
      Invocation("execute", "gemini", None, GeminiCall, "", None, 0) }

ConcResponses ==
    { Response("ok", 200, <<"OK">>, "ok", Obj1("result", <<"100">>), ""),
      Response("ok", 200, <<"OK">>, "ok", Obj1("error", Key("Tool execution failed")), ""),
      HttpError(404, "ok", Obj1("error", Key("Invalid tool name"))),
      HttpError(500, "ok", <<"Internal Server Error">>),
      Response("net", 0, <<"timed out">>, "ok", <<>>, "TimeoutError") }

NextConc ==
    \/ \E c \in Callers, i \in ConcInvocations : Call(c, i)
    \/ \E c \in Callers, resp \in ConcResponses : Attempt(c, resp)
    \/ \E c \in Callers : Sleep(c)
    \/ \E c \in Callers : Finish(c)

SpecConc == Init /\ [][NextConc]_vars

(***************************************************************************)
(* Progress.  urlopen is given a timeout, so every attempt completes with  *)
(* a response, an error or a transport timeout; time.sleep(delay) returns  *)
(* after a finite delay.  Nothing obliges a caller to start a call or to   *)
(* pick up its result.  How a call ends does not depend on which operation *)
(* built its request beyond GET or POST and the reading of the result, so  *)
(* one operation of each kind is followed, against every response.         *)
(***************************************************************************)
LiveInvocations == ConcInvocations

NextLive ==
    \/ \E c \in SoloCallers, i \in LiveInvocations : Call(c, i)
    \/ \E c \in SoloCallers, resp \in Responses : Attempt(c, resp)
    \/ \E c \in SoloCallers : Sleep(c)
    \/ \E c \in SoloCallers : Finish(c)

Fairness ==
    \A c \in SoloCallers :
        /\ WF_vars(\E resp \in Responses : Attempt(c, resp))
        /\ WF_vars(Sleep(c))

SpecLive == Init /\ [][NextLive]_vars /\ Fairness

(***************************************************************************)
(* Calls made one after the other on the same client, with a record of how *)
(* the previous call ended.                                                *)
(***************************************************************************)
InitSeq ==
    /\ base_url = BaseUrl
    /\ timeout \in Timeouts
    /\ max_retries \in (0 - NegRetriesBound)..MaxRetriesBound
    /\ retry_delay \in 1..MaxDelay
    /\ retry_backoff \in 1..MaxBackoff
    /\ earlier = [c \in Callers |-> "none"]
    /\ NoCallYet

SpecSeq == InitSeq /\ [][NextLive]_vars

(***************************************************************************)
(* Vocabulary of the properties.                                           *)
(***************************************************************************)
RECURSIVE Pow(_, _)
Pow(b, n) == IF n = 0 THEN 1 ELSE b * Pow(b, n - 1)

\* The attempt failed in a way the specification calls retryable:
\* an HTTP error with status >= 500 or a network-level failure.
RetryableClass(cls) == cls \in {"5xx", "net"}

\* Attempts 1..n of caller c all failed retryably.
FailedRetryably(c, n) == \A j \in 1..n : RetryableClass(log[c][j])

\* The latest attempt of caller c got a response of class cls.
LastClass(c, cls) == Len(log[c]) >= 1 /\ log[c][Len(log[c])] = cls

\* The body of the latest response was read and is JSON text.
LastBodyIsJson(c) == lastResp[c].read = "ok" /\ JsonLoads(lastResp[c].body).ok

\* The decoded body of the latest response.
LastBody(c) == JsonLoads(lastResp[c].body).val

\* The body of the latest response is a JSON object carrying field name.
LastBodyHas(c, name) ==
    /\ LastBodyIsJson(c)
    /\ LastBody(c).k = "dict"
    /\ name \in DOMAIN LastBody(c).fields

IsExecution(c) == inv[c].op \in {"execute", "call_tool"}

\* No attempt and no sleep has followed the latest response: the call is
\* over, every attempt is in the log, and every sleep lies between two
\* attempts.
EndedOnLastResponse(c) ==
    /\ pc[c] = "done"
    /\ attempts[c] = Len(log[c])
    /\ Len(sleeps[c]) = attempts[c] - 1

\* No attempt of caller c was made after a 2xx response.
NothingAfter2xx(c) == \A j \in 1..(Len(log[c]) - 1) : log[c][j] # "2xx"

(***************************************************************************)
(* C1.  A 4xx status on the first attempt ends the call there: one         *)
(* request attempt, no sleep, no retry, and the error raised says          *)
(* "Gateway HTTP <status>" and carries the value of the body's `error`     *)
(* field when the body is a JSON object that has one.                      *)
(***************************************************************************)
C1_ClientErrorNotRetried ==
    \A c \in Callers :
        (Len(log[c]) >= 1 /\ log[c][1] = "4xx") =>
            /\ pc[c] = "done"
            /\ attempts[c] = 1
            /\ sleeps[c] = <<>>
            /\ made[c].tag = "raise"
            /\ outcome[c].tag = "raise"
            /\ Contains(outcome[c].err.msg, <<"Gateway HTTP ", ToString(lastResp[c].code)>>)
            /\ LastBodyHas(c, <<"error">>) =>
                  Contains(outcome[c].err.msg,
                           IF LastBody(c).fields[<<"error">>].k = "str"
                           THEN LastBody(c).fields[<<"error">>].s
                           ELSE JsonDumps(LastBody(c).fields[<<"error">>]))

C1_Witness ==
    \E c \in Callers :
        /\ pc[c] = "done"
        /\ log[c] = <<"4xx">>
        /\ max_retries = MaxRetriesBound
        /\ lastResp[c].code = 400
        /\ lastResp[c].body = Obj1("error", Key("Bad request"))
        /\ inv[c].op = "get_tools"
        /\ outcome[c].err.msg = <<"Gateway HTTP ", "400", ": ", "Bad request">>

(***************************************************************************)
(* C2.  With max_retries >= 0, a call all of whose attempts ended in a     *)
(* status >= 500 or a network failure has made exactly max_retries + 1     *)
(* attempts when it fails.                                                 *)
(***************************************************************************)
C2_ExhaustionAttemptCount ==
    \A c \in Callers :
        (pc[c] = "done" /\ max_retries >= 0 /\ FailedRetryably(c, Len(log[c]))) =>
            /\ outcome[c].tag = "raise"
            /\ attempts[c] = max_retries + 1
            /\ Len(log[c]) = max_retries + 1

C2_Witness ==
    \E c \in Callers :
        /\ pc[c] = "done"
        /\ max_retries = MaxRetriesBound
        /\ attempts[c] = MaxRetriesBound + 1
        /\ FailedRetryably(c, Len(log[c]))
        /\ \E i, j \in 1..Len(log[c]) : log[c][i] = "5xx" /\ log[c][j] = "net"

(***************************************************************************)
(* C3.  The sleep between attempt i and attempt i+1 (i from 0) lasts       *)
(* retry_delay * retry_backoff^i: every attempt after the first is         *)
(* preceded by its sleep, and no sleep is clamped.                         *)
(***************************************************************************)
C3_BackoffDelays ==
    \A c \in Callers :
        /\ \A j \in 1..Len(sleeps[c]) :
              sleeps[c][j] = retry_delay * Pow(retry_backoff, j - 1)
        /\ pc[c] = "attempt" => Len(sleeps[c]) = attempts[c]
        /\ pc[c] = "sleep" => Len(sleeps[c]) = attempts[c] - 1
        /\ Len(sleeps[c]) <= attempts[c]

C3_Witness ==
    \E c \in Callers :
        /\ retry_delay = 2
        /\ retry_backoff = 2
        /\ sleeps[c] = <<2, 4>>
        /\ attempts[c] = 3

(***************************************************************************)
(* C4.  When the first k attempts (0 <= k <= max_retries) failed retryably *)
(* and attempt k+1 got a 2xx response with a JSON body, _make_request      *)
(* returns the decoded body after exactly k+1 attempts and k sleeps, and   *)
(* nothing follows the 2xx response.                                       *)
(***************************************************************************)
C4_SuccessEndsRetries ==
    \A c \in Callers :
        /\ NothingAfter2xx(c)
        /\ (/\ LastClass(c, "2xx")
            /\ LastBodyIsJson(c)
            /\ FailedRetryably(c, Len(log[c]) - 1)) =>
                /\ EndedOnLastResponse(c)
                /\ Len(log[c]) - 1 <= max_retries
                /\ made[c].tag = "return"
                /\ made[c].val = LastBody(c)
                /\ ~IsExecution(c) => outcome[c] = made[c]

C4_Witness ==
    \E c \in Callers :
        /\ pc[c] = "done"
        /\ inv[c].op = "health"
        /\ max_retries = 2
        /\ log[c] = <<"5xx", "5xx", "2xx">>
        /\ Len(sleeps[c]) = 2
        /\ lastResp[c].body = Obj1("ok", <<"true">>)
        /\ outcome[c].tag = "return"
        /\ outcome[c].val = DictSet(EmptyDict, <<"ok">>, JBool("true"))

(***************************************************************************)
(* Vocabulary of the error reports.                                        *)
(***************************************************************************)
IsExhaustedError(e) ==
    e.type = "RuntimeError" /\ Len(e.msg) >= 1 /\ e.msg[1] = "Request failed after "

\* The failure the latest attempt of caller c should have recorded.
IsFailureOfLastAttempt(c, cause) ==
    /\ Len(log[c]) >= 1
    /\ cause.type = "RuntimeError"
    /\ IF lastResp[c].cls = "http"
       THEN /\ Len(cause.msg) > 3
            /\ SubSeq(cause.msg, 1, 3) = <<"Gateway HTTP ", ToString(lastResp[c].code), ": ">>
       ELSE cause.msg = <<"Network error: ">> \o lastResp[c].reason

ExhaustedReport(c) ==
    /\ made[c].err.msg = <<"Request failed after ", ToString(attempts[c]), " attempts">>
    /\ attempts[c] = max_retries + 1
    /\ IsFailureOfLastAttempt(c, made[c].err.cause)

(***************************************************************************)
(* C5.  A call that fails with the exhausted-retries error reports         *)
(* "Request failed after N attempts" with N = max_retries + 1 = the number *)
(* of attempts made, and its cause is the failure of the last attempt.     *)
(***************************************************************************)
C5_ExhaustedErrorReport ==
    \A c \in Callers :
        (pc[c] = "done" /\ made[c].tag = "raise" /\ IsExhaustedError(made[c].err)) =>
            ExhaustedReport(c)

\* The report of C5 is accurate whenever the loop body ran at least once.
C5_ReportAfterAnAttempt ==
    \A c \in Callers :
        (/\ pc[c] = "done"
         /\ made[c].tag = "raise"
         /\ IsExhaustedError(made[c].err)
         /\ attempts[c] >= 1) => ExhaustedReport(c)

\* The body of the latest response is exactly {"error": <a string>}.
LastBodyIsErrorObject(c) ==
    /\ lastResp[c].cls \in {"ok", "http"}
    /\ LastBodyHas(c, <<"error">>)
    /\ DOMAIN LastBody(c).fields = {<<"error">>}
    /\ LastBody(c).fields[<<"error">>].k = "str"

LastErrorText(c) == LastBody(c).fields[<<"error">>].s

(***************************************************************************)
(* C6.  For execute and call_tool a response body {"error": msg} makes the *)
(* call fail with a message equal to msg, whatever the status (2xx, 4xx or *)
(* 5xx) it came with.                                                      *)
(***************************************************************************)
C6_ErrorBodyAnyStatus ==
    \A c \in Callers :
        (/\ IsExecution(c)
         /\ LastBodyIsErrorObject(c)
         /\ \E cls \in {"2xx", "4xx", "5xx"} : LastClass(c, cls)) =>
            /\ pc[c] = "done"
            /\ outcome[c].tag = "raise"
            /\ outcome[c].err.msg = LastErrorText(c)

(***************************************************************************)
(* C6, as amended.  The message equals msg when the body came with a 2xx   *)
(* status.  With a 4xx status the message is "Gateway HTTP <status>: "     *)
(* followed by msg (msg not empty).  With a status >= 500 the attempt is   *)
(* retried, and "Gateway HTTP <status>: <msg>" is only the recorded        *)
(* failure: the cause of the exhausted-retries error if no retry is left.  *)
(***************************************************************************)
C6_ErrorBodyByStatus ==
    \A c \in Callers :
        (IsExecution(c) /\ LastBodyIsErrorObject(c)) =>
            LET prefixed == <<"Gateway HTTP ", ToString(lastResp[c].code), ": ">>
                                \o LastErrorText(c)
            IN  /\ LastClass(c, "2xx") =>
                      /\ pc[c] = "done"
                      /\ outcome[c].tag = "raise"
                      /\ outcome[c].err.type = "RuntimeError"
                      /\ outcome[c].err.msg = LastErrorText(c)
                /\ (LastClass(c, "4xx") /\ LastErrorText(c) # <<>>) =>
                      /\ pc[c] = "done"
                      /\ outcome[c].tag = "raise"
                      /\ outcome[c].err.msg = prefixed
                /\ (LastClass(c, "5xx") /\ LastErrorText(c) # <<>>) =>
                      /\ last_error[c].msg = prefixed
                      /\ pc[c] = "done" =>
                            /\ IsExhaustedError(outcome[c].err)
                            /\ outcome[c].err.cause.msg = prefixed

C6_Witness ==
    \E c \in Callers :
        /\ pc[c] = "done"
        /\ inv[c].op = "execute"
        /\ log[c] = <<"2xx">>
        /\ lastResp[c].body = Obj1("error", Key("Tool execution failed"))
        /\ outcome[c].tag = "raise"
        /\ outcome[c].err.msg = <<"Tool execution failed">>

(***************************************************************************)
(* C7.  A 2xx response to execute or call_tool whose JSON body has an      *)
(* `error` field makes the call fail at once: no attempt and no sleep      *)
(* follows it, even with retries left.                                     *)
(***************************************************************************)
C7_ApplicationErrorNotRetried ==
    \A c \in Callers :
        (IsExecution(c) /\ LastClass(c, "2xx") /\ LastBodyHas(c, <<"error">>)) =>
            /\ EndedOnLastResponse(c)
            /\ outcome[c].tag = "raise"
            /\ NothingAfter2xx(c)

C7_Witness ==
    \E c \in Callers :
        /\ inv[c].op = "call_tool"
        /\ max_retries = MaxRetriesBound
        /\ log[c] = <<"2xx">>
        /\ LastBodyHas(c, <<"error">>)
        /\ pc[c] = "done"
        /\ attempts[c] = 1
        /\ sleeps[c] = <<>>
        /\ outcome[c].tag = "raise"

(***************************************************************************)
(* C8.  A 2xx response {"result": X} without an `error` field makes        *)
(* execute and call_tool return exactly X, for X a number, a string, an    *)
(* object, a list or null.                                                 *)
(***************************************************************************)
C8_ResultReturned ==
    \A c \in Callers :
        (/\ IsExecution(c)
         /\ LastClass(c, "2xx")
         /\ LastBodyHas(c, <<"result">>)
         /\ ~LastBodyHas(c, <<"error">>)) =>
            /\ pc[c] = "done"
            /\ outcome[c].tag = "return"
            /\ outcome[c].val = LastBody(c).fields[<<"result">>]
            /\ lastResp[c].body = Obj1("result", <<"100">>) => outcome[c].val = JNum("100")
            /\ lastResp[c].body = Obj1("result", Key("done")) =>
                  outcome[c].val = JStr(<<"done">>)
            /\ lastResp[c].body = Obj1("result", <<"null">>) => outcome[c].val = JNull
            /\ lastResp[c].body = Obj1("result", <<"[", Q, "a", Q, ",", "1", "]">>) =>
                  outcome[c].val = JList(<<JStr(<<"a">>), JNum("1")>>)
            /\ lastResp[c].body = Obj1("result", Obj1("status", Key("success"))) =>
                  outcome[c].val = DictSet(EmptyDict, <<"status">>, JStr(<<"success">>))

C8_Witness ==
    \E c \in Callers :
        /\ pc[c] = "done"
        /\ inv[c].op = "call_tool"
        /\ LastClass(c, "2xx")
        /\ lastResp[c].body = Obj1("result", Obj1("status", Key("success")))
        /\ outcome[c].tag = "return"
        /\ outcome[c].val = DictSet(EmptyDict, <<"status">>, JStr(<<"success">>))

(***************************************************************************)
(* C9.  A 2xx response whose body is not valid JSON ends the call with a   *)
(* decoding error on that attempt: no sleep and no attempt follows, even   *)
(* with retries left.                                                      *)
(***************************************************************************)
C9_DecodeErrorTerminal ==
    \A c \in Callers :
        /\ NothingAfter2xx(c)
        /\ (LastClass(c, "2xx") /\ ~LastBodyIsJson(c)) =>
              /\ EndedOnLastResponse(c)
              /\ made[c].tag = "raise"
              /\ made[c].err.type \in {"JSONDecodeError", "UnicodeDecodeError"}
              /\ outcome[c] = made[c]

C9_Witness ==
    \E c \in Callers :
        /\ pc[c] = "done"
        /\ max_retries = MaxRetriesBound
        /\ log[c] = <<"2xx">>
        /\ lastResp[c].body = <<"<html>", "not json">>
        /\ attempts[c] = 1
        /\ sleeps[c] = <<>>
        /\ made[c].err.type = "JSONDecodeError"

(***************************************************************************)
(* C10.  _make_request either returns the decoded response or fails with   *)
(* a RuntimeError: a 4xx, a 5xx, a network failure, an undecodable body    *)
(* or exhausted retries never reach the caller as another kind of error.   *)
(***************************************************************************)
C10_OnlyRuntimeError ==
    \A c \in Callers :
        (/\ pc[c] = "done"
         /\ \A j \in 1..Len(log[c]) : log[c][j] \in {"2xx", "4xx", "5xx", "net"}) =>
            \/ made[c].tag = "return"
            \/ made[c].tag = "raise" /\ made[c].err.type = "RuntimeError"

(***************************************************************************)
(* Vocabulary of the retry decisions.                                      *)
(***************************************************************************)
\* Attempt j of caller c was followed by a sleep or by another attempt.
FollowedUp(c, j) ==
    \/ j < Len(log[c])
    \/ j = Len(log[c]) /\ pc[c] \in {"sleep", "attempt"}

(***************************************************************************)
(* C11.  The attempts _make_request retries are exactly those that ended   *)
(* in an HTTP error with status >= 500 or in a network failure: an HTTP    *)
(* error with a status below 500 is never followed by a sleep or by        *)
(* another attempt.                                                        *)
(***************************************************************************)
C11_OnlyServerErrorsRetried ==
    \A c \in Callers :
        \A j \in 1..Len(log[c]) :
            FollowedUp(c, j) => log[c][j] \in {"5xx", "net"}

(***************************************************************************)
(* C11, as amended.  The attempts retried are those that ended in an HTTP  *)
(* error with a status outside [400, 500) or in a network failure: an HTTP *)
(* error with a status in [400, 500) is never followed by a sleep or by    *)
(* another attempt, one with a status below 400 is retried like a 5xx.     *)
(***************************************************************************)
C11_ClientErrorsNeverRetried ==
    \A c \in Callers :
        /\ \A j \in 1..Len(log[c]) :
              FollowedUp(c, j) => log[c][j] \in {"5xx", "net", "3xx"}
        /\ (LastClass(c, "4xx") \/ LastClass(c, "2xx")) => EndedOnLastResponse(c)
        /\ (/\ \E cls \in {"5xx", "net", "3xx"} : LastClass(c, cls)
            /\ Len(log[c]) <= max_retries) => FollowedUp(c, Len(log[c]))

C11_Witness ==
    \E c \in Callers :
        /\ log[c] = <<"3xx", "5xx", "net">>
        /\ lastResp[c].exc = "TimeoutError"
        /\ Len(sleeps[c]) = 2
        /\ max_retries = 2
        /\ pc[c] = "done"

(***************************************************************************)
(* C12.  In every state of a call, whatever the gateway answered, the      *)
(* number of request attempts made so far is at most max_retries + 1.      *)
(***************************************************************************)
C12_AttemptsBounded ==
    \A c \in Callers :
        pc[c] # "idle" => attempts[c] <= max_retries + 1

\* The bound of C12 holds for every client whose max_retries is not negative.
C12_BoundedFromZero ==
    \A c \in Callers :
        (pc[c] # "idle" /\ max_retries >= 0) => attempts[c] <= max_retries + 1

\* The latest attempt of caller c ended in an HTTPError.
LastIsHttpError(c) == Len(log[c]) >= 1 /\ lastResp[c].cls = "http"

\* The error built from the latest HTTPError: raised at once for a status
\* in [400, 500), kept as the last error of the loop otherwise.
HttpErrorOf(c) == IF LastClass(c, "4xx") THEN made[c].err ELSE last_error[c]

\* The text after "Gateway HTTP <code>: " in the error of the latest
\* HTTPError.
AttachedMessage(c) == SubSeq(HttpErrorOf(c).msg, 4, Len(HttpErrorOf(c).msg))

\* The body of the latest HTTPError as it could be read ("" when not).
ReadableBody(c) == IF lastResp[c].read = "ok" THEN lastResp[c].body ELSE <<>>

(***************************************************************************)
(* C13.  The message attached to an HTTP error is the value of the JSON    *)
(* field `error` when the body is a JSON object carrying it; otherwise the *)
(* raw body text when the body is non-empty; otherwise, when the body is   *)
(* empty or unreadable, the reason phrase.                                 *)
(***************************************************************************)
C13_MessagePrecedence ==
    \A c \in Callers :
        LastIsHttpError(c) =>
            /\ SubSeq(HttpErrorOf(c).msg, 1, 3) =
                  <<"Gateway HTTP ", ToString(lastResp[c].code), ": ">>
            /\ AttachedMessage(c) =
                  IF LastBodyHas(c, <<"error">>)
                  THEN PyStr(LastBody(c).fields[<<"error">>])
                  ELSE IF ReadableBody(c) # <<>>
                       THEN ReadableBody(c)
                       ELSE lastResp[c].reason

(***************************************************************************)
(* C13, amended.  The message attached to an HTTP error is the value of    *)
(* the JSON field `error` when the body is a JSON object carrying one that *)
(* is not empty (not "", null, false, 0, [] or {}); otherwise the raw body *)
(* text when the body is non-empty (a non-JSON body, a JSON body without   *)
(* `error`, or one whose `error` is empty); otherwise, when the body is    *)
(* empty or unreadable, the reason phrase.                                 *)
(***************************************************************************)
C13_MessagePrecedenceNonEmpty ==
    \A c \in Callers :
        LastIsHttpError(c) =>
            /\ SubSeq(HttpErrorOf(c).msg, 1, 3) =
                  <<"Gateway HTTP ", ToString(lastResp[c].code), ": ">>
            /\ AttachedMessage(c) =
                  IF /\ LastBodyHas(c, <<"error">>)
                     /\ Truthy(LastBody(c).fields[<<"error">>])
                  THEN PyStr(LastBody(c).fields[<<"error">>])
                  ELSE IF ReadableBody(c) # <<>>
                       THEN ReadableBody(c)
                       ELSE lastResp[c].reason

\* A 404 whose body is {"error": "Invalid tool name"} ended the call with
\* that text, after a 500 with an empty body was retried.
C13_Witness ==
    \E c \in Callers :
        /\ pc[c] = "done"
        /\ log[c] = <<"5xx", "4xx">>
        /\ lastResp[c] = HttpError(404, "ok", Obj1("error", Key("Invalid tool name")))
        /\ last_error[c].msg = <<"Gateway HTTP ", "500", ": ", "Internal Server Error">>
        /\ outcome[c].err.msg = <<"Gateway HTTP ", "404", ": ", "Invalid tool name">>

\* Caller c is inside a call of operation op (the request has been built).
InCall(c, op) == pc[c] # "idle" /\ inv[c].op = op

(***************************************************************************)
(* C14.  get_tools with no server argument requests exactly                *)
(* <base_url>/tools/<provider>; with a server argument the request URL is  *)
(* <base_url>/tools/<provider>?server=<value> where <value> is the         *)
(* URL-encoded server name, also for names holding reserved characters     *)
(* such as space, '&', '=' or '#'.                                         *)
(***************************************************************************)
C14_GetToolsUrl ==
    \A c \in Callers :
        InCall(c, "get_tools") =>
            /\ req[c].method = "GET"
            /\ req[c].url =
                  IF inv[c].server = None
                  THEN base_url \o <<"/tools/", inv[c].provider>>
                  ELSE base_url \o <<"/tools/", inv[c].provider, "?server=">>
                           \o QuotePlus(inv[c].server[1])

\* The first half of C14: without a server argument the URL has no query.
C14_GetToolsUrlNoServer ==
    \A c \in Callers :
        (InCall(c, "get_tools") /\ inv[c].server = None) =>
            req[c].url = base_url \o <<"/tools/", inv[c].provider>>

\* The query string of the request of caller c: what follows
\* <base_url>/logs? in its URL.
QueryString(c) == SubSeq(req[c].url, Len(base_url) + 2, Len(req[c].url))

(***************************************************************************)
(* C15.  logs always sends the query parameters server and limit, and      *)
(* sends since if and only if a since argument was given (None and the     *)
(* empty string both count as not given); when given, the since timestamp  *)
(* appears URL-encoded in the query string (':' as %3A).                   *)
(***************************************************************************)
C15_LogsQueryParameters ==
    \A c \in Callers :
        InCall(c, "logs") =>
            /\ req[c].method = "GET"
            /\ SubSeq(req[c].url, 1, Len(base_url) + 1) = base_url \o <<"/logs?">>
            /\ Contains(QueryString(c), <<"server=">> \o QuotePlus(inv[c].server[1]))
            /\ Contains(QueryString(c), <<"limit=", ToString(inv[c].limit)>>)
            /\ Contains(QueryString(c), <<"since=">>) <=> Given(inv[c].since)
            /\ Given(inv[c].since) =>
                  /\ Contains(QueryString(c), <<"since=">> \o QuotePlus(inv[c].since[1]))
                  /\ ~Contains(QueryString(c), <<":">>)
            /\ \A tok \in {" ", "#", ":"} : ~Contains(QueryString(c), <<tok>>)

\* logs(server="default", since="2024-01-01T00:00:00Z", limit=10) is under
\* way with the timestamp encoded in its URL.
C15_Witness ==
    \E c \in Callers :
        /\ InCall(c, "logs")
        /\ attempts[c] >= 1
        /\ inv[c].since = Some(SinceStamp)
        /\ req[c].url = base_url \o <<"/logs?", "server=", "default", "&", "limit=", "10",
                                      "&", "since=", "2024-01-01T00", "%3A", "00", "%3A", "00Z">>

\* The operations that hand back what _make_request returned.
PassThroughOps == {"get_tools", "tools", "logs", "health"}

(***************************************************************************)
(* C16.  get_tools, tools, logs and health return the decoded 2xx response *)
(* body verbatim: whatever JSON value the body holds, also one with an     *)
(* `error` field, the operation returns that value and does not fail.      *)
(***************************************************************************)
C16_BodyReturnedVerbatim ==
    \A c \in Callers :
        (/\ inv[c].op \in PassThroughOps
         /\ LastClass(c, "2xx")
         /\ LastBodyIsJson(c)) =>
            /\ pc[c] = "done"
            /\ outcome[c].tag = "return"
            /\ outcome[c].val = LastBody(c)
            /\ outcome[c].err = NoExc

\* health got 200 with body {"error": "Tool execution failed"} after one
\* retried failure and returned that object.
C16_Witness ==
    \E c \in Callers :
        /\ pc[c] = "done"
        /\ inv[c].op = "health"
        /\ log[c] = <<"5xx", "2xx">>
        /\ lastResp[c].body = Obj1("error", Key("Tool execution failed"))
        /\ outcome[c].tag = "return"
        /\ outcome[c].val = JDict(<<JStr(<<"error">>)>>,
                                  [k \in {<<"error">>} |-> JStr(<<"Tool execution failed">>)])

\* The JSON body of the request of caller c, decoded again.
SentPayload(c) == JsonLoads(req[c].data).val

(***************************************************************************)
(* C17.  execute sends a POST to /execute whose JSON body holds provider   *)
(* and the caller's call structure unchanged, and holds a server key if    *)
(* and only if a server was specified (None and the empty string both      *)
(* count as not specified); with no server the payload has no server key.  *)
(***************************************************************************)
C17_ExecutePayload ==
    \A c \in Callers :
        InCall(c, "execute") =>
            /\ req[c].method = "POST"
            /\ req[c].url = base_url \o <<"/execute">>
            /\ JsonLoads(req[c].data).ok
            /\ SentPayload(c).k = "dict"
            /\ {<<"provider">>, <<"call">>} \subseteq DOMAIN SentPayload(c).fields
            /\ DOMAIN SentPayload(c).fields \subseteq {<<"provider">>, <<"call">>, <<"server">>}
            /\ SentPayload(c).fields[<<"provider">>] = JStr(<<inv[c].provider>>)
            /\ SentPayload(c).fields[<<"call">>] = inv[c].callv
            /\ <<"server">> \in DOMAIN SentPayload(c).fields <=> Given(inv[c].server)
            /\ Given(inv[c].server) =>
                  SentPayload(c).fields[<<"server">>] = JStr(inv[c].server[1])

\* execute("gemini", {"name": "add", "args": {}}) without a server has sent
\* {"provider": "gemini", "call": {"name": "add", "args": {}}}.
C17_Witness ==
    \E c \in Callers :
        /\ InCall(c, "execute")
        /\ attempts[c] >= 1
        /\ inv[c].server = None
        /\ inv[c].callv = GeminiCall
        /\ req[c].data = <<"{", Q, "provider", Q, ":", Q, "gemini", Q, ",",
                           Q, "call", Q, ":",
                           "{", Q, "name", Q, ":", Q, "add", Q, ",",
                           Q, "args", Q, ":", "{", "}", "}", "}">>

(***************************************************************************)
(* C18.  No client operation changes the client configuration: no step of  *)
(* any call (building the request, an attempt, a sleep, the return or the  *)
(* raise) changes base_url, timeout, max_retries, retry_delay or           *)
(* retry_backoff, so after any sequence of calls they hold their           *)
(* construction-time values.                                               *)
(***************************************************************************)
C18_ConfigurationUnchanged == [][config' = config]_vars

\* A call has ended in failure after three attempts and two sleeps; its
\* local delay has grown away from the field retry_delay.
C18_Witness ==
    \E c \in Callers :
        /\ pc[c] = "done"
        /\ outcome[c].tag = "raise"
        /\ attempts[c] = 3
        /\ Len(sleeps[c]) = 2
        /\ retry_delay = 1
        /\ delay[c] = 4

\* What a call that ran alone gives after the responses caller c got: its
\* latest response decides, the earlier ones were all retried.
SoloOutcome(c) ==
    LET res == TryRequest(lastResp[c])
    IN  CASE attempts[c] = 0 -> Raise(Exhausted(max_retries, NoExc))
          [] attempts[c] > 0 /\ res.tag = "retry" -> Raise(Exhausted(max_retries, res.err))
          [] attempts[c] > 0 /\ res.tag = "return" -> Interpret(inv[c].op, res.val)
          [] OTHER -> res

\* The number of sleeps a call that ran alone has finished when it is
\* where caller c is, after as many attempts.
SoloSleepCount(c) ==
    CASE pc[c] = "attempt" -> attempts[c]
      [] attempts[c] = 0 -> 0
      [] OTHER -> attempts[c] - 1

(***************************************************************************)
(* C19.  When two calls run concurrently on the same client, under every   *)
(* interleaving of their attempts and sleeps each call's attempt count,    *)
(* retry counter, sleep durations, current delay and outcome are what they *)
(* would be had the call run alone against the responses it got: they are  *)
(* a function of the client configuration and of the call's own responses, *)
(* whatever the other call is doing.                                       *)
(***************************************************************************)
C19_CallsIsolated ==
    \A c \in Callers :
        pc[c] # "idle" =>
            /\ attempts[c] = Len(log[c])
            /\ attempt[c] = IF pc[c] = "attempt" \/ attempts[c] = 0
                            THEN attempts[c] ELSE attempts[c] - 1
            /\ Len(sleeps[c]) = SoloSleepCount(c)
            /\ \A j \in 1..Len(sleeps[c]) :
                  sleeps[c][j] = retry_delay * Pow(retry_backoff, j - 1)
            /\ delay[c] = retry_delay * Pow(retry_backoff, Len(sleeps[c]))
            /\ pc[c] = "done" => outcome[c] = SoloOutcome(c)
            /\ pc[c] # "done" => outcome[c] = Pending /\ attempts[c] <= max_retries

\* Both calls are in progress at different points of their retry loops:
\* one has slept twice and is about to make its third attempt, the other
\* is in its first sleep, and their delays differ.
C19_Witness ==
    \E c, d \in Callers :
        /\ c # d
        /\ pc[c] = "attempt" /\ attempts[c] = 2 /\ Len(sleeps[c]) = 2
        /\ pc[d] = "sleep" /\ attempts[d] = 1 /\ sleeps[d] = <<>>
        /\ inv[c].op = "execute" /\ inv[d].op = "health"
        /\ delay[c] = 4 /\ delay[d] = 1

\* The locals and the history of the call of caller c.
CallState(c) ==
    <<pc[c], inv[c], req[c], attempt[c], delay[c], last_error[c], made[c],
      outcome[c], attempts[c], sleeps[c], log[c], lastResp[c], sent[c], earlier[c]>>

\* The second half of C19: a step of one call neither writes the retry
\* counter, the delay or any other local of the other call.
C19_StepsTouchOneCall ==
    [][\A c, d \in Callers :
          (c # d /\ CallState(c)' # CallState(c)) => CallState(d)' = CallState(d)]_vars

\* Every attempt caller c has made so far failed retryably.
AlwaysFailedRetryably(c) == attempts[c] >= 1 /\ FailedRetryably(c, Len(log[c]))

(***************************************************************************)
(* C20.  A client constructed with only a base URL uses a 60 s timeout,    *)
(* 3 retries, 1.0 s initial delay and 2.0 backoff: against a gateway that  *)
(* always fails retryably, a call makes exactly 4 attempts separated by    *)
(* sleeps of 1, 2 and 4 seconds, in that order.                            *)
(***************************************************************************)
C20_DefaultSchedule ==
    /\ timeout = 60 /\ max_retries = 3 /\ retry_delay = 1 /\ retry_backoff = 2
    /\ \A c \in Callers :
          AlwaysFailedRetryably(c) =>
              /\ pc[c] = "done" <=> attempts[c] = 4
              /\ pc[c] = "done" => sleeps[c] = <<1, 2, 4>> /\ outcome[c].tag = "raise"
              /\ pc[c] = "sleep" => sleeps[c] = SubSeq(<<1, 2, 4>>, 1, attempts[c] - 1)
              /\ pc[c] = "attempt" => sleeps[c] = SubSeq(<<1, 2, 4>>, 1, attempts[c])

\* A call on the default client has failed after a 500, a timeout and two
\* more 500s, with sleeps of 1, 2 and 4 seconds between them.
C20_Witness ==
    \E c \in Callers :
        /\ pc[c] = "done"
        /\ log[c] = <<"5xx", "net", "5xx", "5xx">>
        /\ attempts[c] = 4
        /\ sleeps[c] = <<1, 2, 4>>
        /\ timeout = 60

(***************************************************************************)
(* C21.  Every request attempt of every call, the first one and every      *)
(* retry alike, is sent with the client's configured timeout value.        *)
(***************************************************************************)
C21_TimeoutOnEveryAttempt ==
    \A c \in Callers :
        /\ Len(sent[c]) = attempts[c]
        /\ \A j \in 1..Len(sent[c]) : sent[c][j].timeout = timeout

\* A client built with timeout=30 has made three attempts in one call, the
\* last two of them retries, each with a timeout of 30.
C21_Witness ==
    \E c \in Callers :
        /\ timeout = 30
        /\ attempts[c] = 3
        /\ log[c] = <<"net", "5xx", "2xx">>
        /\ \A j \in 1..3 : sent[c][j].timeout = 30

(***************************************************************************)
(* C22.  A 4xx response ends the call on whichever attempt it arrives: if  *)
(* j retryable failures (0 <= j <= max_retries) are followed by a 4xx      *)
(* response, the call has made exactly j+1 attempts and j sleeps and has   *)
(* failed with the "Gateway HTTP <status>" error of that response, not     *)
(* with the "Request failed after N attempts" error.                       *)
(***************************************************************************)
C22_ClientErrorEndsAnyAttempt ==
    \A c \in Callers :
        (LastClass(c, "4xx") /\ FailedRetryably(c, Len(log[c]) - 1)) =>
            /\ Len(log[c]) - 1 <= max_retries
            /\ pc[c] = "done"
            /\ attempts[c] = Len(log[c])
            /\ Len(sleeps[c]) = Len(log[c]) - 1
            /\ outcome[c].tag = "raise"
            /\ outcome[c].err.type = "RuntimeError"
            /\ SubSeq(outcome[c].err.msg, 1, 3) =
                  <<"Gateway HTTP ", ToString(lastResp[c].code), ": ">>
            /\ ~IsExhaustedError(outcome[c].err)

\* With max_retries = 2, a 404 arrived on the last attempt the loop allows,
\* after a 500 and a timeout: three attempts, two sleeps, the error of the
\* 404.
C22_Witness ==
    \E c \in Callers :
        /\ max_retries = 2
        /\ log[c] = <<"5xx", "net", "4xx">>
        /\ lastResp[c].code = 404
        /\ attempts[c] = 3 /\ Len(sleeps[c]) = 2
        /\ outcome[c].err.msg = <<"Gateway HTTP ", "404", ": ", "Invalid tool name">>

\* The call of caller c has ended in the exhausted-retries error.
EndedExhausted(c) ==
    pc[c] = "done" /\ made[c].tag = "raise" /\ IsExhaustedError(made[c].err)

\* Sleeps lie strictly between attempts: none before the first attempt,
\* none after the final one.
SleepsBetweenAttempts(c) ==
    /\ attempts[c] = 0 => sleeps[c] = <<>>
    /\ pc[c] = "attempt" => Len(sleeps[c]) = attempts[c]
    /\ (pc[c] = "sleep" \/ (pc[c] = "done" /\ attempts[c] >= 1)) =>
          Len(sleeps[c]) = attempts[c] - 1

(***************************************************************************)
(* C23.  Sleeps happen only strictly between two attempts of the same      *)
(* call: no sleep precedes the first attempt, no sleep follows the final   *)
(* attempt (once the call has ended after at least one attempt the number  *)
(* of sleeps is the number of attempts minus one), and a call that         *)
(* exhausts its retries has slept exactly max_retries times.               *)
(***************************************************************************)
C23_SleepPlacement ==
    \A c \in Callers :
        /\ SleepsBetweenAttempts(c)
        /\ EndedExhausted(c) => Len(sleeps[c]) = max_retries

\* The placement of C23 holds for every client; the count of sleeps of an
\* exhausted call is max_retries whenever max_retries is not negative.
C23_SleepPlacementFromZero ==
    \A c \in Callers :
        /\ SleepsBetweenAttempts(c)
        /\ (EndedExhausted(c) /\ max_retries >= 0) => Len(sleeps[c]) = max_retries

\* URL, method, body and headers of the j-th urlopen call of caller c.
Descriptor(c, j) ==
    <<sent[c][j].url, sent[c][j].method, sent[c][j].data, sent[c][j].headers>>

(***************************************************************************)
(* C24.  Every attempt of one call sends the same request descriptor: URL, *)
(* HTTP method and body (and headers) of a retry are identical to those of *)
(* the first attempt, which are the ones the operation built.              *)
(***************************************************************************)
C24_SameRequestEveryAttempt ==
    \A c \in Callers :
        \A j \in 1..Len(sent[c]) :
            /\ Descriptor(c, j) = Descriptor(c, 1)
            /\ Descriptor(c, 1) =
                  <<BuildRequest(base_url, inv[c]).url, BuildRequest(base_url, inv[c]).method,
                    BuildRequest(base_url, inv[c]).data, BuildRequest(base_url, inv[c]).headers>>

\* An execute call has sent its POST with the same JSON body three times.
C24_Witness ==
    \E c \in Callers :
        /\ inv[c].op = "execute"
        /\ Len(sent[c]) = 3
        /\ log[c] = <<"5xx", "net", "5xx">>
        /\ \A j \in 1..3 :
              /\ sent[c][j].method = "POST"
              /\ sent[c][j].url = base_url \o <<"/execute">>
              /\ sent[c][j].data # <<>>
              /\ sent[c][j].data = req[c].data

(***************************************************************************)
(* C25.  Every call terminates: provided each HTTP attempt completes and   *)
(* each sleep ends, a call that is in its retry loop eventually returns a  *)
(* value or raises, for every sequence of gateway responses and every      *)
(* max_retries.                                                            *)
(***************************************************************************)
C25_EveryCallTerminates ==
    \A c \in Callers :
        (pc[c] \in {"attempt", "sleep"}) ~>
            (pc[c] = "done" /\ outcome[c].tag \in {"return", "raise"})

\* A call has ended after using up every attempt the loop allows.
C25_Witness ==
    \E c \in Callers :
        /\ pc[c] = "done"
        /\ max_retries = 2
        /\ attempts[c] = 3 /\ Len(sleeps[c]) = 2
        /\ outcome[c].tag = "raise"
        /\ IsExhaustedError(outcome[c].err)

\* execute or call_tool of caller c got a 2xx response whose body is a
\* JSON object.
ExecutionGotObject(c) ==
    /\ IsExecution(c)
    /\ LastClass(c, "2xx")
    /\ LastBodyIsJson(c)
    /\ LastBody(c).k = "dict"

(***************************************************************************)
(* C26.  In execute and call_tool the error field takes precedence over    *)
(* result: a 2xx body that carries both fields makes the call fail with    *)
(* the error message and the result is not returned; a 2xx JSON object     *)
(* that carries neither field makes the call return a null value, not      *)
(* fail.                                                                   *)
(***************************************************************************)
C26_ErrorBeforeResult ==
    \A c \in Callers :
        ExecutionGotObject(c) =>
            /\ pc[c] = "done"
            /\ (LastBodyHas(c, <<"error">>) /\ LastBodyHas(c, <<"result">>)) =>
                  /\ outcome[c].tag = "raise"
                  /\ outcome[c].err.type = "RuntimeError"
                  /\ outcome[c].err.msg = PyStr(LastBody(c).fields[<<"error">>])
            /\ (~LastBodyHas(c, <<"error">>) /\ ~LastBodyHas(c, <<"result">>)) =>
                  /\ outcome[c].tag = "return"
                  /\ outcome[c].val = JNull

\* call_tool got 200 with body {"error": "boom", "result": 1} and failed
\* with the message boom.
C26_Witness ==
    \E c \in Callers :
        /\ pc[c] = "done"
        /\ inv[c].op = "call_tool"
        /\ LastClass(c, "2xx")
        /\ lastResp[c].body = Obj2("error", Key("boom"), "result", <<"1">>)
        /\ outcome[c].tag = "raise"
        /\ outcome[c].err.msg = <<"boom">>

\* execute got 200 with body {"ok": true}, which has neither field, and
\* returned None.
C26_WitnessNeither ==
    \E c \in Callers :
        /\ pc[c] = "done"
        /\ inv[c].op = "execute"
        /\ lastResp[c].body = Obj1("ok", <<"true">>)
        /\ outcome[c].tag = "return"
        /\ outcome[c].val = JNull

\* The call of caller c has sent a request, and if it ended in the
\* exhausted-retries error that error has a recorded cause.
AttemptedBeforeEnding(c) ==
    /\ attempts[c] >= 1
    /\ Len(sent[c]) >= 1
    /\ EndedExhausted(c) => made[c].err.cause # NoCause /\ last_error[c] # NoExc

(***************************************************************************)
(* C27.  Every call to a client operation sends at least one HTTP request  *)
(* before it returns or fails, for every value of max_retries the client   *)
(* can be constructed with (0 and negative values included); a call never  *)
(* fails with the exhausted-retries error without having made an attempt   *)
(* and recorded a cause.                                                   *)
(***************************************************************************)
C27_AtLeastOneAttempt ==
    \A c \in Callers : pc[c] = "done" => AttemptedBeforeEnding(c)

\* The property of C27 holds for every client whose max_retries is not
\* negative, max_retries = 0 included.
C27_AtLeastOneAttemptFromZero ==
    \A c \in Callers :
        (pc[c] = "done" /\ max_retries >= 0) => AttemptedBeforeEnding(c)

\* The number of attempts the loop of a call allows: the length of
\* range(max_retries + 1).
AttemptBudget == IF max_retries >= 0 THEN max_retries + 1 ELSE 0

\* The retry state of the call of caller c is what the configuration and
\* the call's own attempts make it: the loop index counts this call's
\* attempts from 0, the delay starts at retry_delay and has been multiplied
\* once per sleep of this call, and the attempts stay within the budget.
FreshRetryState(c) ==
    /\ attempts[c] = 0 =>
          /\ attempt[c] = 0
          /\ delay[c] = retry_delay
          /\ sleeps[c] = <<>>
          /\ last_error[c] = NoExc
    /\ attempt[c] = IF pc[c] = "attempt" \/ attempts[c] = 0
                    THEN attempts[c] ELSE attempts[c] - 1
    /\ \A j \in 1..Len(sleeps[c]) : sleeps[c][j] = retry_delay * Pow(retry_backoff, j - 1)
    /\ delay[c] = retry_delay * Pow(retry_backoff, Len(sleeps[c]))
    /\ attempts[c] <= AttemptBudget
    /\ pc[c] \in {"attempt", "sleep"} => attempts[c] < AttemptBudget
    /\ EndedExhausted(c) => attempts[c] = AttemptBudget

(***************************************************************************)
(* C28.  Retry state does not carry over between calls on the same client: *)
(* each call starts with attempt count 0 and current delay equal to        *)
(* retry_delay, so a call made after an earlier call that retried or       *)
(* exhausted its retries has the same attempt budget and the same sleep    *)
(* durations as a first call.                                              *)
(***************************************************************************)
C28_NoCarryOver ==
    \A c \in Callers :
        (pc[c] # "idle" /\ earlier[c] \in {"none", "clean", "retried", "exhausted"}) =>
            FreshRetryState(c)

\* A call made after a call that exhausted its retries has itself used up
\* three attempts with sleeps of 1 and 2, as a first call does.
C28_Witness ==
    \E c \in Callers :
        /\ earlier[c] = "exhausted"
        /\ max_retries = 2 /\ retry_delay = 1 /\ retry_backoff = 2
        /\ EndedExhausted(c)
        /\ attempts[c] = 3
        /\ sleeps[c] = <<1, 2>>

\* A call has just been started after a call that retried.
C28_WitnessStart ==
    \E c \in Callers :
        /\ earlier[c] = "retried"
        /\ pc[c] = "attempt" /\ attempts[c] = 0
        /\ attempt[c] = 0 /\ delay[c] = retry_delay

====
